---- MODULE Spec2Model ----
(***************************************************************************)
(* VaultBot: a Telegram voice-journal bot (src/Vault.py) on top of a       *)
(* SQLite credential and memo store (src/database.py).                     *)
(*                                                                         *)
(* State: the two tables (users, memos with the AUTOINCREMENT sequence),   *)
(* each user's context.user_data (state, authenticated), the two global    *)
(* dictionaries user_activity and user_last_messages, the wall clock, and  *)
(* what the last handled event was and what the bot answered to it.        *)
(*                                                                         *)
(* Texts (passwords, button payload arguments, transcripts, summaries) are *)
(* sequences of one-character strings, so that len(), int(), str.strip()   *)
(* and bcrypt's 72-byte input limit are computed and not assumed.  A       *)
(* nullable TEXT column is a sequence of at most one text: <<>> is NULL.   *)
(***************************************************************************)
EXTENDS Integers, Sequences, FiniteSets, TLC

VARIABLES
    users,               \* table users: user_id -> master_password_hash or NoRow
    memos,               \* table memos: a set of rows
    next_id,             \* sqlite_sequence of memos.id (AUTOINCREMENT)
    user_data,           \* context.user_data of each user
    user_activity,       \* global dict user_id -> time.time() of the last event
    user_last_messages,  \* global dict user_id -> list of tracked message ids
    now,                 \* time.time()
    ai_configured,       \* LEMONFOX_API_KEY and lemonfox_client are set
    bcrypt_truncates,    \* the installed bcrypt truncates inputs over 72 bytes
                         \* (bcrypt < 5.0); otherwise it raises ValueError
    frozen_updates,      \* the installed telegram library makes update objects
                         \* immutable (python-telegram-bot >= 20.0)
    bot_token,           \* BOT_TOKEN is set: VaultBot() got constructed
    suspended,           \* the handler that waits at the await of line 118, with
                         \* what is left of its messages_to_delete
    out                  \* the last event handled and the bot's answer to it

vars == <<users, memos, next_id, user_data, user_activity, user_last_messages,
          now, ai_configured, bcrypt_truncates, frozen_updates, bot_token, suspended,
          out>>

-----------------------------------------------------------------------------
(* Bounds of the model *)

MaxMemos == 1
MaxSharedMemos == 2
MaxClock == 301
MaxPending == 2

UserIds == {1, 2}

-----------------------------------------------------------------------------
(* Program constants *)

AWAITING_PASSWORD == 1
AWAITING_LOGIN == 2
AWAITING_VOICE == 3
\* context.user_data.get('state') of a session without the key, or set to None
None == 0
MinPasswordLen == 6
InactivityThreshold == 300
\* bcrypt reads at most 72 bytes of the password handed to hashpw / checkpw
BcryptMaxBytes == 72
\* cleanup_old_messages: above MaxTracked ids only the last KeepTracked are kept
MaxTracked == 10
KeepTracked == 5

-----------------------------------------------------------------------------
(* Texts *)

Digits == {"0", "1", "2", "3", "4", "5", "6", "7", "8", "9"}

DigitValue(c) ==
    CASE c = "0" -> 0 [] c = "1" -> 1 [] c = "2" -> 2 [] c = "3" -> 3
      [] c = "4" -> 4 [] c = "5" -> 5 [] c = "6" -> 6 [] c = "7" -> 7
      [] c = "8" -> 8 [] c = "9" -> 9

\* re pattern \d+ (and the strings int() accepts, among the payloads drawn here)
IsNumeric(s) == Len(s) > 0 /\ \A i \in 1..Len(s) : s[i] \in Digits

RECURSIVE ToInt(_)
ToInt(s) ==
    IF Len(s) = 0 THEN 0
    ELSE 10 * ToInt(SubSeq(s, 1, Len(s) - 1)) + DigitValue(s[Len(s)])

RECURSIVE Repeat(_, _)
Repeat(c, n) == IF n = 0 THEN <<>> ELSE <<c>> \o Repeat(c, n - 1)

RECURSIVE LStrip(_)
LStrip(s) == IF Len(s) > 0 /\ s[1] = " " THEN LStrip(Tail(s)) ELSE s

RECURSIVE RStrip(_)
RStrip(s) ==
    IF Len(s) > 0 /\ s[Len(s)] = " " THEN RStrip(SubSeq(s, 1, Len(s) - 1)) ELSE s

\* str.strip()
Strip(s) == RStrip(LStrip(s))

Range(s) == {s[i] : i \in 1..Len(s)}

\* A nullable TEXT column
NULL == <<>>
Some(t) == <<t>>
\* Python truthiness of a fetched column: neither None nor ''
Truthy(col) == col # NULL /\ Len(col[1]) > 0

-----------------------------------------------------------------------------
(* bcrypt, as database.py uses it.  A hash carries its salt; the digest is *)
(* a function of the salt and of the bytes bcrypt reads, which are the     *)
(* first 72.  Every character drawn here is one byte of UTF-8.             *)

Min(a, b) == IF a < b THEN a ELSE b

\* bcrypt >= 5.0 raises ValueError on a longer input; earlier ones truncate
BcryptRaises(password) == ~bcrypt_truncates /\ Len(password) > BcryptMaxBytes

hashpw(password, salt) ==
    [salt |-> salt,
     key  |-> SubSeq(password, 1, Min(Len(password), BcryptMaxBytes))]

checkpw(password, hashed) == hashpw(password, hashed.salt) = hashed

-----------------------------------------------------------------------------
(* database.py.  dbok = FALSE is a storage error (sqlite3 raising), which  *)
(* every function of the module catches.                                   *)

user_exists(user_id, dbok) ==
    dbok /\ \E r \in users : r.user_id = user_id

\* INSERT OR REPLACE INTO users
set_master_password(user_id, password, salt, dbok) ==
    IF dbok /\ ~BcryptRaises(password)
    THEN [ret   |-> TRUE,
          users |-> {r \in users : r.user_id # user_id}
                    \cup {[user_id |-> user_id,
                           master_password_hash |-> hashpw(password, salt)]}]
    ELSE [ret |-> FALSE, users |-> users]

verify_master_password(user_id, password, dbok) ==
    /\ dbok
    /\ \E r \in users : r.user_id = user_id
    /\ ~BcryptRaises(password)
    /\ \A r \in users :
          r.user_id = user_id => checkpw(password, r.master_password_hash)

\* A bug that keeps one memo per user (INSERT OR REPLACE keyed by the user)
save_voice_memo_replacing(user_id, file_id, dbok) ==
    IF dbok
    THEN [ret     |-> TRUE,
          memos   |-> {m \in memos : m.user_id # user_id}
                      \cup {[id |-> next_id, user_id |-> user_id,
                              file_id |-> file_id,
                              transcription |-> NULL, summary |-> NULL]},
          next_id |-> next_id + 1]
    ELSE [ret |-> FALSE, memos |-> memos, next_id |-> next_id]

\* INSERT INTO memos (user_id, file_id): the id comes from the AUTOINCREMENT
\* sequence, transcription and summary default to NULL
save_voice_memo(user_id, file_id, dbok) ==
    IF dbok
    THEN [ret     |-> TRUE,
          memos   |-> memos \cup {[id |-> next_id, user_id |-> user_id,
                                   file_id |-> file_id,
                                   transcription |-> NULL, summary |-> NULL]},
          next_id |-> next_id + 1]
    ELSE [ret |-> FALSE, memos |-> memos, next_id |-> next_id]

\* SELECT id, file_id, date FROM memos WHERE user_id = ?  (the rows; their
\* order by date is not modelled)
get_user_memos(user_id, dbok) ==
    IF dbok
    THEN {[id |-> r.id, file_id |-> r.file_id] : r \in {m \in memos : m.user_id = user_id}}
    ELSE {}

\* A bug that leaves "AND user_id = ?" out of the lookup
get_memo_file_id_any_owner(memo_id, user_id, dbok) ==
    LET rows == {m \in memos : m.id = memo_id}
    IN  IF dbok /\ rows # {} THEN Some((CHOOSE m \in rows : TRUE).file_id) ELSE NULL

\* SELECT file_id FROM memos WHERE id = ? AND user_id = ?
get_memo_file_id(memo_id, user_id, dbok) ==
    LET rows == {m \in memos : m.id = memo_id /\ m.user_id = user_id}
    IN  IF dbok /\ rows # {} THEN Some((CHOOSE m \in rows : TRUE).file_id) ELSE NULL

\* A bug that leaves "AND user_id = ?" out of the DELETE
delete_memo_any_owner(memo_id, user_id, dbok) ==
    LET rows == {m \in memos : m.id = memo_id}
    IN  IF dbok /\ rows # {}
        THEN [ret |-> TRUE, memos |-> memos \ rows]
        ELSE [ret |-> FALSE, memos |-> memos]

\* A bug that does not look at cursor.rowcount
delete_memo_ignoring_rowcount(memo_id, user_id, dbok) ==
    LET rows == {m \in memos : m.id = memo_id /\ m.user_id = user_id}
    IN  [ret |-> dbok, memos |-> IF dbok THEN memos \ rows ELSE memos]

\* DELETE FROM memos WHERE id = ? AND user_id = ?
delete_memo(memo_id, user_id, dbok) ==
    LET rows == {m \in memos : m.id = memo_id /\ m.user_id = user_id}
    IN  IF dbok /\ rows # {}
        THEN [ret |-> TRUE, memos |-> memos \ rows]
        ELSE [ret |-> FALSE, memos |-> memos]

\* SELECT transcription FROM memos WHERE id = ? AND user_id = ?  (row[0], or
\* NULL when there is no row)
select_transcription(memo_id, user_id) ==
    LET rows == {m \in memos : m.id = memo_id /\ m.user_id = user_id}
    IN  IF rows # {} THEN (CHOOSE m \in rows : TRUE).transcription ELSE NULL

\* SELECT summary FROM memos WHERE id = ? AND user_id = ?
select_summary(memo_id, user_id) ==
    LET rows == {m \in memos : m.id = memo_id /\ m.user_id = user_id}
    IN  IF rows # {} THEN (CHOOSE m \in rows : TRUE).summary ELSE NULL

\* A bug that never commits the UPDATE
update_transcription_uncommitted(text, memo_id, user_id) == memos

\* UPDATE memos SET transcription = ? WHERE id = ? AND user_id = ?
update_transcription(text, memo_id, user_id) ==
    {IF m.id = memo_id /\ m.user_id = user_id
     THEN [m EXCEPT !.transcription = Some(text)] ELSE m : m \in memos}

\* UPDATE memos SET summary = ? WHERE id = ? AND user_id = ?
update_summary(text, memo_id, user_id) ==
    {IF m.id = memo_id /\ m.user_id = user_id
     THEN [m EXCEPT !.summary = Some(text)] ELSE m : m \in memos}

-----------------------------------------------------------------------------
(* The two global dictionaries of Vault.py *)

\* user_activity[user_id] = time.time()
update_user_activity(activity, user_id) ==
    [u \in DOMAIN activity \cup {user_id} |->
        IF u = user_id THEN now ELSE activity[u]]

\* del d[user_id], when the key is there
DelKey(d, user_id) == [u \in DOMAIN d \ {user_id} |-> d[u]]

LastN(s, n) == IF Len(s) <= n THEN s ELSE SubSeq(s, Len(s) - n + 1, Len(s))

\* cleanup_old_messages: every tracked id but the excluded one is deleted in
\* the chat and dropped from the list (delete_message is taken to succeed);
\* exclude = 0 is exclude_message_id = None
cleanup_old_messages(tracked, user_id, exclude) ==
    IF user_id \in DOMAIN tracked
    THEN LET kept == SelectSeq(tracked[user_id], LAMBDA id : exclude # 0 /\ id = exclude)
         IN  [tracked EXCEPT ![user_id] =
                 IF Len(kept) > MaxTracked THEN LastN(kept, KeepTracked) ELSE kept]
    ELSE tracked

\* The id Telegram gives the next message of the chat: one no message that is
\* tracked, nor the one being answered, has
NewMessageId(tracked, user_id, current) ==
    LET used == (IF user_id \in DOMAIN tracked THEN Range(tracked[user_id]) ELSE {})
                \cup {current}
    IN  CHOOSE id \in 1..(Cardinality(used) + 1) :
            id \notin used /\ \A j \in 1..(id - 1) : j \in used

\* if user_id not in user_last_messages: user_last_messages[user_id] = []
\* user_last_messages[user_id].append(message.message_id)
Track(tracked, user_id, current) ==
    [u \in DOMAIN tracked \cup {user_id} |->
        IF u = user_id
        THEN (IF u \in DOMAIN tracked THEN tracked[u] ELSE <<>>)
             \o <<NewMessageId(tracked, user_id, current)>>
        ELSE tracked[u]]

\* list.remove(message_id), when it is in the list
ListRemove(s, message_id) == SelectSeq(s, LAMBDA id : id # message_id)
Untrack(tracked, user_id, message_id) ==
    IF user_id \in DOMAIN tracked
    THEN [tracked EXCEPT ![user_id] = SelectSeq(@, LAMBDA id : id # message_id)]
    ELSE tracked

-----------------------------------------------------------------------------
(* Events and answers *)

\* callback_data "<cmd>_<arg>", or "<cmd>" with an empty arg; a text message
\* and a voice message are carried the same way
Data(cmd, arg) == [cmd |-> cmd, arg |-> arg]
NoData == Data("", <<>>)

\* An event of user u before the bot has answered anything
Event(u, kind, data) ==
    [user   |-> u,          \* update.effective_user.id
     kind   |-> kind,       \* "command", "button", "text", "voice", "job"
     data   |-> data,
     reply  |-> "",         \* the message shown last (reply_text / edit_message_text)
     toast  |-> "",         \* the text of query.answer(text)
     shown  |-> <<>>,       \* the stored texts the reply quotes
     listed |-> {},         \* the memo ids the reply offers as buttons
     stt    |-> <<>>,       \* what audio.transcriptions.create did, if called
     llm    |-> <<>>,       \* what chat.completions.create did, if called
     raised |-> FALSE,      \* the handler ended by an uncaught exception
     dberr  |-> FALSE]      \* a storage call of the event raised

Session(state, authenticated) == [state |-> state, authenticated |-> authenticated]

\* context.user_data.clear()
ClearedSession == Session(None, FALSE)

\* The state after start-up in an environment where the AI key is configured
\* or not (AI), with a bcrypt that truncates or not (BC) and a telegram library
\* whose updates are immutable or not (FR); TK: BOT_TOKEN is set or not, and
\* without it VaultBot.__init__ raises ValueError: no handler and no job is
\* registered and the process ends
\* No handler is waiting
NoHandler == [user |-> 0, pending |-> <<>>]

InitIn(TK, AI, BC, FR) ==
    /\ users = {}
    /\ memos = {}
    /\ next_id = 1
    /\ user_data = [u \in UserIds |-> ClearedSession]
    /\ user_activity = <<>>
    /\ user_last_messages = <<>>
    /\ now = 0
    /\ ai_configured \in AI
    /\ bcrypt_truncates \in BC
    /\ frozen_updates \in FR
    /\ bot_token \in TK
    /\ suspended = NoHandler
    /\ out = Event(0, "", NoData)

Init == InitIn(BOOLEAN, BOOLEAN, {FALSE}, BOOLEAN)

-----------------------------------------------------------------------------
(* /start *)

\* show_welcome_message, for a message update
show_welcome_message(u, tracked) == Track(tracked, u, 0)

\* A bug that leaves context.user_data as it is
start_command_handler_keeping_session(u) ==
    /\ user_activity' = update_user_activity(user_activity, u)
    /\ user_last_messages' =
          show_welcome_message(u, cleanup_old_messages(user_last_messages, u, 0))
    /\ out' = [Event(u, "command", Data("start", <<>>)) EXCEPT !.reply = "welcome"]
    /\ UNCHANGED <<users, memos, next_id, user_data, now, ai_configured, bcrypt_truncates, frozen_updates, bot_token>>

start_command_handler(u) ==
    /\ user_data' = [user_data EXCEPT ![u] = ClearedSession]
    /\ user_activity' = update_user_activity(user_activity, u)
    /\ user_last_messages' =
          show_welcome_message(u, cleanup_old_messages(user_last_messages, u, 0))
    /\ out' = [Event(u, "command", Data("start", <<>>)) EXCEPT !.reply = "welcome"]
    /\ UNCHANGED <<users, memos, next_id, now, ai_configured, bcrypt_truncates, frozen_updates, bot_token>>

-----------------------------------------------------------------------------
(* Text messages *)

\* A bug that takes 5 characters for enough
too_short_off_by_one(password) == Len(password) < MinPasswordLen - 1

\* len(password) < 6
too_short(password) == Len(password) < MinPasswordLen

handle_password_input(u, password, salt, dbok, ev, tracked) ==
    IF too_short(password)
    THEN /\ out' = [ev EXCEPT !.reply = "password_too_short"]
         /\ user_last_messages' = Track(tracked, u, 0)
         /\ UNCHANGED <<users, user_data>>
    ELSE LET r == set_master_password(u, password, salt, dbok)
         IN  IF r.ret
             THEN /\ users' = r.users
                  /\ out' = [ev EXCEPT !.reply = "password_set"]
                  /\ user_last_messages' = Track(tracked, u, 0)
                  /\ user_data' = [user_data EXCEPT ![u] = Session(None, TRUE)]
             ELSE /\ out' = [ev EXCEPT !.reply = "password_set_failed",
                                       !.dberr = ~dbok]
                  /\ user_last_messages' = Track(tracked, u, 0)
                  /\ UNCHANGED <<users, user_data>>

\* A bug that leaves the login state after a wrong password
handle_login_input_one_try(u, password, dbok, ev, tracked) ==
    IF verify_master_password(u, password, dbok)
    THEN /\ out' = [ev EXCEPT !.reply = "access_granted"]
         /\ user_last_messages' = Track(tracked, u, 0)
         /\ user_data' = [user_data EXCEPT ![u] = Session(None, TRUE)]
         /\ UNCHANGED users
    ELSE /\ out' = [ev EXCEPT !.reply = "incorrect_password", !.dberr = ~dbok]
         /\ user_last_messages' = Track(tracked, u, 0)
         /\ user_data' = [user_data EXCEPT ![u].state = None]
         /\ UNCHANGED users

handle_login_input(u, password, dbok, ev, tracked) ==
    IF verify_master_password(u, password, dbok)
    THEN /\ out' = [ev EXCEPT !.reply = "access_granted"]
         /\ user_last_messages' = Track(tracked, u, 0)
         /\ user_data' = [user_data EXCEPT ![u] = Session(None, TRUE)]
         /\ UNCHANGED users
    ELSE /\ out' = [ev EXCEPT !.reply = "incorrect_password", !.dberr = ~dbok]
         /\ user_last_messages' = Track(tracked, u, 0)
         /\ UNCHANGED <<users, user_data>>

handle_text_input(u, text, salt, dbok) ==
    LET current_state == user_data[u].state
        ev == Event(u, "text", Data("text", text))
        tracked == cleanup_old_messages(user_last_messages, u, 0)
    IN  /\ user_activity' = update_user_activity(user_activity, u)
        /\ \/ /\ current_state = AWAITING_PASSWORD
              /\ handle_password_input(u, text, salt, dbok, ev, tracked)
           \/ /\ current_state = AWAITING_LOGIN
              /\ handle_login_input(u, text, dbok, ev, tracked)
           \/ /\ current_state \notin {AWAITING_PASSWORD, AWAITING_LOGIN}
              /\ out' = ev
              /\ user_last_messages' = tracked
              /\ UNCHANGED <<users, user_data>>
        /\ UNCHANGED <<memos, next_id, now, ai_configured, bcrypt_truncates, frozen_updates, bot_token>>

-----------------------------------------------------------------------------
(* Voice messages *)

\* A bug that stores a voice message in any state of an unlocked session
handle_voice_message_any_state(u, file_id, dbok) ==
    LET ev == Event(u, "voice", Data("voice", <<file_id>>))
        tracked == cleanup_old_messages(user_last_messages, u, 0)
        r == save_voice_memo(u, file_id, dbok)
    IN  /\ user_activity' = update_user_activity(user_activity, u)
        /\ user_last_messages' = Track(tracked, u, 0)
        /\ IF ~user_data[u].authenticated
           THEN /\ out' = [ev EXCEPT !.reply = "unlock_and_select_new_memo"]
                /\ UNCHANGED <<memos, next_id, user_data>>
           ELSE /\ memos' = r.memos
                /\ next_id' = r.next_id
                /\ out' = [ev EXCEPT !.reply = "memo_saved"]
                /\ user_data' = [user_data EXCEPT ![u].state = None]
        /\ UNCHANGED <<users, now, ai_configured, bcrypt_truncates, frozen_updates, bot_token>>

handle_voice_message(u, file_id, dbok) ==
    LET ev == Event(u, "voice", Data("voice", <<file_id>>))
        tracked == cleanup_old_messages(user_last_messages, u, 0)
    IN  /\ user_activity' = update_user_activity(user_activity, u)
        /\ user_last_messages' = Track(tracked, u, 0)
        /\ IF ~user_data[u].authenticated \/ user_data[u].state # AWAITING_VOICE
           THEN /\ out' = [ev EXCEPT !.reply = "unlock_and_select_new_memo"]
                /\ UNCHANGED <<memos, next_id, user_data>>
           ELSE LET r == save_voice_memo(u, file_id, dbok)
                IN  IF r.ret
                    THEN /\ memos' = r.memos
                         /\ next_id' = r.next_id
                         /\ out' = [ev EXCEPT !.reply = "memo_saved"]
                         /\ user_data' = [user_data EXCEPT ![u].state = None]
                    ELSE /\ out' = [ev EXCEPT !.reply = "memo_save_failed",
                                              !.dberr = ~dbok]
                         /\ UNCHANGED <<memos, next_id, user_data>>
        /\ UNCHANGED <<users, now, ai_configured, bcrypt_truncates, frozen_updates, bot_token>>

-----------------------------------------------------------------------------
(* Buttons handled by inline_button_handler.  Each handler below states     *)
(* what it does to user_data, memos and out (and to the dictionaries when   *)
(* it touches them); activity and tracked are the dictionaries as           *)
(* inline_button_handler left them before routing.                          *)

\* A bug that unlocks the vault of a user who has a password
start_bot_unlocking(u, dbok, ev) ==
    /\ IF ~user_exists(u, dbok)
       THEN /\ out' = [ev EXCEPT !.reply = "set_your_master_password",
                                 !.dberr = ~dbok]
            /\ user_data' = [user_data EXCEPT ![u].state = AWAITING_PASSWORD]
       ELSE /\ out' = [ev EXCEPT !.reply = "enter_your_master_password"]
            /\ user_data' = [user_data EXCEPT ![u] = Session(None, TRUE)]
    /\ UNCHANGED memos

start_bot(u, dbok, ev) ==
    /\ IF ~user_exists(u, dbok)
       THEN /\ out' = [ev EXCEPT !.reply = "set_your_master_password",
                                 !.dberr = ~dbok]
            /\ user_data' = [user_data EXCEPT ![u].state = AWAITING_PASSWORD]
       ELSE /\ out' = [ev EXCEPT !.reply = "enter_your_master_password"]
            /\ user_data' = [user_data EXCEPT ![u].state = AWAITING_LOGIN]
    /\ UNCHANGED memos

unlock_vault(u, dbok, ev) ==
    /\ IF user_exists(u, dbok)
       THEN /\ out' = [ev EXCEPT !.reply = "enter_your_master_password"]
            /\ user_data' = [user_data EXCEPT ![u].state = AWAITING_LOGIN]
       ELSE /\ out' = [ev EXCEPT !.reply = "set_up_your_vault_first",
                                 !.dberr = ~dbok]
            /\ UNCHANGED user_data
    /\ UNCHANGED memos

new_memo_handler(u, ev) ==
    /\ IF ~user_data[u].authenticated
       THEN /\ out' = [ev EXCEPT !.reply = "unlock_first"]
            /\ UNCHANGED user_data
       ELSE /\ user_data' = [user_data EXCEPT ![u].state = AWAITING_VOICE]
            /\ out' = [ev EXCEPT !.reply = "ready_to_record"]
    /\ UNCHANGED memos

\* The answer of my_memos_handler; it reads the memo table as the event has
\* left it (delete_memo_handler calls it after its DELETE)
my_memos_handler(u, dbok, ev) ==
    out' = IF ~user_data[u].authenticated
           THEN [ev EXCEPT !.reply = "unlock_first"]
           ELSE LET rows == get_user_memos(u, dbok)'
                IN  IF rows = {}
                    THEN [ev EXCEPT !.reply = "no_memos_yet", !.dberr = ~dbok]
                    ELSE [ev EXCEPT !.reply = "your_memos",
                                    !.listed = {r.id : r \in rows}]

help_handler(ev) ==
    /\ out' = [ev EXCEPT !.reply = "help"]
    /\ UNCHANGED <<user_data, memos>>

back_to_menu_handler(ev) ==
    /\ out' = [ev EXCEPT !.reply = "main_menu"]
    /\ UNCHANGED <<user_data, memos>>

\* A bug that locks without clearing the authenticated flag
lock_handler_keeping_flag(u, mid, ev, activity, tracked) ==
    /\ user_data' = [user_data EXCEPT ![u].state = None]
    /\ user_activity' = DelKey(activity, u)
    /\ user_last_messages' = cleanup_old_messages(tracked, u, 0)
    /\ out' = [ev EXCEPT !.reply = "vault_locked"]
    /\ UNCHANGED memos

\* cleanup_old_messages is called with no excluded id, so it deletes the
\* message of the button too when that message is tracked; Telegram then
\* refuses edit_message_text on it and the handler ends by that exception
lock_handler(u, mid, ev, activity, tracked) ==
    LET deleted == u \in DOMAIN tracked /\ mid \in Range(tracked[u])
    IN  /\ user_data' = [user_data EXCEPT ![u] = Session(None, FALSE)]
        /\ user_activity' = DelKey(activity, u)
        /\ user_last_messages' = cleanup_old_messages(tracked, u, 0)
        /\ out' = IF deleted THEN [ev EXCEPT !.raised = TRUE]
                  ELSE [ev EXCEPT !.reply = "vault_locked"]
        /\ UNCHANGED memos

listen_memo_handler(u, mid, dbok, tgok, ev, tracked) ==
    LET arg == ev.data.arg
        file_id == get_memo_file_id(ToInt(arg), u, dbok)
    IN  /\ IF ~IsNumeric(arg)
           THEN /\ out' = [ev EXCEPT !.toast = "Invalid memo ID"]
                /\ user_last_messages' = tracked
           ELSE IF file_id = NULL
           THEN /\ out' = [ev EXCEPT !.toast = "Memo not found or access denied",
                                     !.dberr = ~dbok]
                /\ user_last_messages' = tracked
           ELSE IF ~tgok
           THEN /\ out' = [ev EXCEPT !.toast = "Error playing memo"]
                /\ user_last_messages' = tracked
           ELSE /\ out' = [ev EXCEPT !.toast = "Playing your memo...",
                                     !.reply = "memo_options",
                                     !.shown = <<file_id>>,
                                     !.listed = {ToInt(arg)}]
                \* the voice message, the options message, then the list
                \* message of the button is deleted and untracked
                /\ user_last_messages' =
                      Untrack(Track(Track(tracked, u, mid), u, mid), u, mid)
        /\ UNCHANGED <<user_data, memos>>

delete_memo_handler(u, fail, ev) ==
    LET arg == ev.data.arg
        dbok == fail # 1
        dbok2 == fail # 2
        r == delete_memo(ToInt(arg), u, dbok)
    IN  /\ UNCHANGED user_data
        /\ IF ~IsNumeric(arg)
           THEN /\ out' = [ev EXCEPT !.toast = "Invalid memo ID"]
                /\ UNCHANGED memos
           ELSE IF r.ret
           THEN /\ memos' = r.memos
                /\ my_memos_handler(u, dbok2, [ev EXCEPT !.toast = "Memo deleted"])
           ELSE /\ out' = [ev EXCEPT !.toast = "Failed to delete memo",
                                     !.dberr = ~dbok]
                /\ UNCHANGED memos

\* CallbackQueryHandler patterns ^transcribe_\d+$ and ^summarize_\d+$ come
\* before the catch-all pattern of inline_button_handler
RoutedToAI(data) == data.cmd \in {"transcribe", "summarize"} /\ IsNumeric(data.arg)

inline_button_handler(u, data, mid, fail, tgok) ==
    LET ev == Event(u, "button", data)
        dbok == fail # 1
        activity == update_user_activity(user_activity, u)
        tracked == cleanup_old_messages(user_last_messages, u, mid)
    IN  /\ ~RoutedToAI(data)
        /\ \/ /\ data = Data("start_bot", <<>>)
              /\ start_bot(u, dbok, ev)
              /\ user_activity' = activity /\ user_last_messages' = tracked
           \/ /\ data = Data("unlock_vault", <<>>)
              /\ unlock_vault(u, dbok, ev)
              /\ user_activity' = activity /\ user_last_messages' = tracked
           \/ /\ data = Data("new_memo", <<>>)
              /\ new_memo_handler(u, ev)
              /\ user_activity' = activity /\ user_last_messages' = tracked
           \/ /\ data \in {Data("my_memos", <<>>), Data("back_to_memos", <<>>)}
              /\ UNCHANGED <<user_data, memos>>
              /\ my_memos_handler(u, dbok, ev)
              /\ user_activity' = activity /\ user_last_messages' = tracked
           \/ /\ data = Data("help", <<>>)
              /\ help_handler(ev)
              /\ user_activity' = activity /\ user_last_messages' = tracked
           \/ /\ data = Data("lock_vault", <<>>)
              /\ lock_handler(u, mid, ev, activity, tracked)
           \/ /\ data = Data("back_to_menu", <<>>)
              /\ back_to_menu_handler(ev)
              /\ user_activity' = activity /\ user_last_messages' = tracked
           \/ /\ data.cmd = "listen"
              /\ listen_memo_handler(u, mid, dbok, tgok, ev, tracked)
              /\ user_activity' = activity
           \/ /\ data.cmd = "delete"
              /\ delete_memo_handler(u, fail, ev)
              /\ user_activity' = activity /\ user_last_messages' = tracked
           \/ \* no branch of the if/elif chain matches: nothing is answered
              /\ data.cmd \notin {"start_bot", "unlock_vault", "new_memo", "my_memos",
                                  "help", "lock_vault", "back_to_menu", "back_to_memos",
                                  "listen", "delete"}
              /\ out' = ev
              /\ UNCHANGED <<user_data, memos>>
              /\ user_activity' = activity /\ user_last_messages' = tracked
        /\ UNCHANGED <<users, next_id, now, ai_configured, bcrypt_truncates, frozen_updates, bot_token>>

-----------------------------------------------------------------------------
(* The AI handlers.  ai is what the download of the audio and the speech-   *)
(* to-text call do, llm what the chat-completion call does: kind "ok" with  *)
(* the text returned, or the failure.  fail is the number of the storage    *)
(* call of the event that raises (0: none does); a handler's storage calls  *)
(* are numbered in the order it makes them, and every handler stops at the  *)
(* first one that fails.                                                    *)

AiResult(kind, text) == [kind |-> kind, text |-> text]

\* A bug that has the one generic except clause and no test of the text
transcription_process_generic(ev, ai, dbok) ==
    IF ai.kind = "ok" /\ dbok
    THEN [out   |-> [ev EXCEPT !.reply = "transcription",
                               !.shown = <<Strip(ai.text)>>,
                               !.toast = "Transcription complete!", !.stt = <<ai>>],
          store |-> Some(Strip(ai.text))]
    ELSE [out   |-> [ev EXCEPT !.reply = "transcription_failed_unexpectedly",
                               !.toast = "Transcription Failed",
                               !.stt = IF ai.kind \in {"download_error", "file_not_found"}
                                       THEN <<>> ELSE <<ai>>],
          store |-> NULL]

\* What transcribe_memo_handler does once it has found no stored
\* transcription: the answer, and the text to store (NULL: nothing is stored)
transcription_process(ev, ai, dbok) ==
    LET transcription_text == Strip(ai.text)
    IN  IF ai.kind = "download_error"
        THEN [out   |-> [ev EXCEPT !.reply = "transcription_failed_unexpectedly",
                                   !.toast = "Transcription Failed"],
              store |-> NULL]
        ELSE IF ai.kind = "file_not_found"
        THEN [out   |-> [ev EXCEPT !.reply = "transcription_failed_file",
                                   !.toast = "File Error"],
              store |-> NULL]
        ELSE IF ai.kind = "rate_limit"
        THEN [out   |-> [ev EXCEPT !.reply = "transcription_failed_rate_limit",
                                   !.toast = "Rate Limit", !.stt = <<ai>>],
              store |-> NULL]
        ELSE IF ai.kind = "api_error"
        THEN [out   |-> [ev EXCEPT !.reply = "transcription_failed_api_error",
                                   !.toast = "API Error", !.stt = <<ai>>],
              store |-> NULL]
        ELSE IF ai.kind = "error"
        THEN [out   |-> [ev EXCEPT !.reply = "transcription_failed_unexpectedly",
                                   !.toast = "Transcription Failed", !.stt = <<ai>>],
              store |-> NULL]
        ELSE IF Len(transcription_text) = 0
        THEN [out   |-> [ev EXCEPT !.reply = "transcription_empty",
                                   !.toast = "Transcription Warning", !.stt = <<ai>>],
              store |-> NULL]
        ELSE IF ~dbok
        THEN \* the UPDATE raises inside the try: except Exception
             [out   |-> [ev EXCEPT !.reply = "transcription_failed_unexpectedly",
                                   !.toast = "Transcription Failed", !.stt = <<ai>>,
                                   !.dberr = TRUE],
              store |-> NULL]
        ELSE [out   |-> [ev EXCEPT !.reply = "transcription",
                                   !.shown = <<transcription_text>>,
                                   !.toast = "Transcription complete!", !.stt = <<ai>>],
              store |-> Some(transcription_text)]

\* The body of transcribe_memo_handler after query.answer() and
\* update_user_activity; first is the number of its first storage call
transcribe_memo(u, arg, ev, ai, fail, first) ==
    LET memo_id == ToInt(arg)
        file_id == get_memo_file_id(memo_id, u, fail # first)
        stored == select_transcription(memo_id, u)
        r == transcription_process(ev, ai, fail # first + 2)
    IN  IF ~ai_configured
        THEN /\ out' = [ev EXCEPT !.reply = "ai_not_configured",
                                  !.toast = "AI Not Configured"]
             /\ UNCHANGED memos
        ELSE IF ~IsNumeric(arg)
        THEN /\ out' = [ev EXCEPT !.reply = "invalid_memo_id"]
             /\ UNCHANGED memos
        ELSE IF file_id = NULL
        THEN /\ out' = [ev EXCEPT !.reply = "memo_not_found_or_access_denied",
                                  !.dberr = (fail = first)]
             /\ UNCHANGED memos
        ELSE IF fail = first + 1
        THEN \* try/finally without except around the SELECT
             /\ out' = [ev EXCEPT !.raised = TRUE, !.dberr = TRUE]
             /\ UNCHANGED memos
        ELSE IF Truthy(stored)
        THEN /\ out' = [ev EXCEPT !.reply = "already_transcribed",
                                  !.shown = <<stored[1]>>]
             /\ UNCHANGED memos
        ELSE /\ out' = r.out
             /\ memos' = IF r.store = NULL THEN memos
                         ELSE update_transcription(r.store[1], memo_id, u)

\* A bug that goes to the speech-to-text call without looking at the key
transcribe_memo_handler_unchecked(u, arg, ai, fail) ==
    LET ev == Event(u, "button", Data("transcribe", arg))
        r == transcription_process(ev, ai, TRUE)
    IN  /\ RoutedToAI(Data("transcribe", arg))
        /\ user_activity' = update_user_activity(user_activity, u)
        /\ IF get_memo_file_id(ToInt(arg), u, TRUE) = NULL
           THEN /\ out' = [ev EXCEPT !.reply = "memo_not_found_or_access_denied"]
                /\ UNCHANGED memos
           ELSE /\ out' = r.out
                /\ memos' = IF r.store = NULL THEN memos
                            ELSE update_transcription(r.store[1], ToInt(arg), u)
        /\ UNCHANGED <<users, next_id, user_data, user_last_messages, now,
                       ai_configured, bcrypt_truncates, frozen_updates, bot_token>>

transcribe_memo_handler(u, arg, ai, fail) ==
    /\ RoutedToAI(Data("transcribe", arg))
    /\ user_activity' = update_user_activity(user_activity, u)
    /\ transcribe_memo(u, arg, Event(u, "button", Data("transcribe", arg)), ai, fail, 1)
    /\ UNCHANGED <<users, next_id, user_data, user_last_messages, now,
                   ai_configured, bcrypt_truncates, frozen_updates, bot_token>>

DigitChar(n) ==
    CASE n = 0 -> "0" [] n = 1 -> "1" [] n = 2 -> "2" [] n = 3 -> "3"
      [] n = 4 -> "4" [] n = 5 -> "5" [] n = 6 -> "6" [] n = 7 -> "7"
      [] n = 8 -> "8" [] n = 9 -> "9"

\* str() of a non-negative int, as in f"transcribe_{memo_id}"
RECURSIVE ToStr(_)
ToStr(n) == IF n < 10 THEN <<DigitChar(n)>> ELSE ToStr(n \div 10) \o <<DigitChar(n % 10)>>

\* What summarize_memo_handler does once it has a transcription and no
\* stored summary: the answer, and the summary to store (NULL: none)
summarization_process(ev, transcription_text, llm, dbok) ==
    LET summary == Strip(llm.text)
    IN  IF llm.kind = "rate_limit"
        THEN [out   |-> [ev EXCEPT !.reply = "summarization_failed_rate_limit",
                                   !.toast = "Rate Limit", !.llm = <<llm>>],
              store |-> NULL]
        ELSE IF llm.kind = "api_error"
        THEN [out   |-> [ev EXCEPT !.reply = "summarization_failed_api_error",
                                   !.toast = "API Error", !.llm = <<llm>>],
              store |-> NULL]
        ELSE IF llm.kind # "ok" \/ ~dbok
        THEN [out   |-> [ev EXCEPT !.reply = "summarization_failed_unexpectedly",
                                   !.toast = "Summarization Failed", !.llm = <<llm>>,
                                   !.dberr = (llm.kind = "ok")],
              store |-> NULL]
        ELSE [out   |-> [ev EXCEPT !.reply = "summary",
                                   !.shown = <<transcription_text, summary>>,
                                   !.toast = "Summary generated!", !.llm = <<llm>>],
              store |-> Some(summary)]

summarize_memo_handler(u, arg, ai, llm, fail) ==
    LET ev == Event(u, "button", Data("summarize", arg))
        memo_id == ToInt(arg)
        transcription == select_transcription(memo_id, u)
        stored == select_summary(memo_id, u)
        r == summarization_process(ev, transcription[1], llm, fail # 2)
    IN  /\ RoutedToAI(Data("summarize", arg))
        /\ user_activity' = update_user_activity(user_activity, u)
        /\ IF ~ai_configured
           THEN /\ out' = [ev EXCEPT !.reply = "ai_not_configured",
                                     !.toast = "AI Not Configured"]
                /\ UNCHANGED memos
           ELSE IF fail = 1
           THEN \* try/finally without except around the two SELECTs
                /\ out' = [ev EXCEPT !.raised = TRUE, !.dberr = TRUE]
                /\ UNCHANGED memos
           ELSE IF ~Truthy(transcription)
           THEN \* query.data = f"transcribe_{memo_id}", then the transcribe handler;
                \* the assignment raises AttributeError on an immutable update
                IF frozen_updates
                THEN /\ out' = [ev EXCEPT !.raised = TRUE]
                     /\ UNCHANGED memos
                ELSE transcribe_memo(u, ToStr(memo_id), ev, ai, fail, 2)
           ELSE IF Truthy(stored)
           THEN /\ out' = [ev EXCEPT !.reply = "summary",
                                     !.shown = <<transcription[1], stored[1]>>,
                                     !.toast = "Summary loaded!"]
                /\ UNCHANGED memos
           ELSE /\ out' = r.out
                /\ memos' = IF r.store = NULL THEN memos
                            ELSE update_summary(r.store[1], memo_id, u)
        /\ UNCHANGED <<users, next_id, user_data, user_last_messages, now,
                       ai_configured, bcrypt_truncates, frozen_updates, bot_token>>

-----------------------------------------------------------------------------
(* The inactivity job and the clock *)

\* A bug that evicts at the threshold already
inactive_users_at_threshold ==
    {u \in DOMAIN user_activity : now - user_activity[u] >= InactivityThreshold}

\* The users check_inactivity evicts
inactive_users == {u \in DOMAIN user_activity : now - user_activity[u] > InactivityThreshold}

check_inactivity ==
    /\ user_activity' = [u \in DOMAIN user_activity \ inactive_users |-> user_activity[u]]
    /\ user_last_messages' =
          [u \in DOMAIN user_last_messages \ inactive_users |-> user_last_messages[u]]
    /\ out' = Event(0, "job", NoData)
    /\ UNCHANGED <<users, memos, next_id, user_data, now, ai_configured, bcrypt_truncates, frozen_updates, bot_token>>

\* Time passes
Tick(d) ==
    /\ now + d <= MaxClock
    /\ now' = now + d
    /\ UNCHANGED <<users, memos, next_id, user_data, user_activity, user_last_messages,
                   ai_configured, bcrypt_truncates,
                   frozen_updates, bot_token, out>>

-----------------------------------------------------------------------------------------------------------------------------------------------------
(* Inputs *)

Short5 == <<"a", "b", "c", "d", "e">>
Pass6 == <<"s", "e", "c", "r", "e", "t">>
Pass7 == <<"h", "u", "n", "t", "e", "r", "2">>
\* Two passwords of 73 bytes that differ in the last byte only
Long73a == Repeat("a", BcryptMaxBytes) \o <<"x">>
Long73b == Repeat("a", BcryptMaxBytes) \o <<"y">>

Texts == {Short5, Pass6, Pass7}
Salts == {"salt1", "salt2"}

\* Arguments of listen_, delete_, transcribe_, summarize_: the ids the store
\* can hold, one it never holds, and two that are not numbers
PayloadArgs == {ToStr(i) : i \in 1..MaxMemos} \cup {<<"9">>, <<"x">>, <<>>}

MenuButtons ==
    {Data(c, <<>>) : c \in {"start_bot", "unlock_vault", "new_memo", "my_memos",
                            "help", "lock_vault", "back_to_menu", "back_to_memos"}}

MemoButtons ==
    {Data(c, a) : c \in {"listen", "delete", "transcribe", "summarize"}, a \in PayloadArgs}

Buttons == MenuButtons \cup MemoButtons

\* The message a button is pressed on: a tracked one, or (0) one of the chat
\* that is not tracked
MessagesOf(u) ==
    {0} \cup (IF u \in DOMAIN user_last_messages THEN Range(user_last_messages[u]) ELSE {})

SttResults ==
    {AiResult("ok", <<" ", "h", "i", " ">>), AiResult("ok", <<" ">>),
     AiResult("download_error", <<>>), AiResult("file_not_found", <<>>),
     AiResult("rate_limit", <<>>), AiResult("api_error", <<>>), AiResult("error", <<>>)}

LlmResults ==
    {AiResult("ok", <<"s", "u", "m", " ">>), AiResult("ok", <<" ">>),
     AiResult("rate_limit", <<>>), AiResult("api_error", <<>>), AiResult("error", <<>>)}

\* The clock moves by half the threshold, or a second more: it reads 0, 150,
\* 151, 300 (not yet over the threshold) and 301 (over it)
ClockSteps == {InactivityThreshold \div 2, InactivityThreshold \div 2 + 1}

-----------------------------------------------------------------------------
(* The events, over the users U that send them and the inputs they carry.   *)
(* F is the set of storage failures that occur (0: none).  The handlers and *)
(* the job exist only when the bot got constructed.                         *)
(* Updates are processed one after the other: an update is dispatched when  *)
(* no handler is waiting (Application.builder() without concurrent_updates).*)

Dispatch == bot_token /\ suspended = NoHandler /\ suspended' = suspended

StartCommand(U) == Dispatch /\ \E u \in U : start_command_handler(u)

TextMessage(U, T, S, F) ==
    \E u \in U, text \in T, salt \in S, fail \in F :
        Dispatch /\ handle_text_input(u, text, salt, fail # 1)

\* cap: the number of memos the store is let to issue ids for
VoiceMessage(U, V, F, cap) ==
    \E u \in U, file_id \in V, fail \in F :
        /\ Dispatch
        /\ handle_voice_message(u, file_id, fail # 1)
        /\ next_id' <= cap + 1

\* tracked: the button may be on a tracked message too
ButtonPress(U, B, F, tracked) ==
    \E u \in U, data \in B, fail \in F :
        \E mid \in (IF tracked THEN MessagesOf(u) ELSE {0}),
           tgok \in (IF data.cmd = "listen" THEN BOOLEAN ELSE {TRUE}) :
            Dispatch /\ inline_button_handler(u, data, mid, fail, tgok)

TranscribePress(U, A, R, F) ==
    \E u \in U, arg \in A, ai \in R, fail \in F :
        Dispatch /\ transcribe_memo_handler(u, arg, ai, fail)

\* One external call is made at most: r is what it does
SummarizePress(U, A, R, F) ==
    \E u \in U, arg \in A, r \in R, fail \in F :
        Dispatch /\ summarize_memo_handler(u, arg, r, r, fail)

\* The job queue runs the job whenever the event loop is free, between two
\* updates or at an await of a handler
InactivityJob == bot_token /\ check_inactivity /\ suspended' = suspended

ClockTick == (\E d \in ClockSteps : Tick(d)) /\ suspended' = suspended

-----------------------------------------------------------------------------
(* Spec: one user's chat with the bot, every event and every answer of the  *)
(* external services, no storage failure, the clock standing still, the     *)
(* buttons pressed on messages that are not tracked.                        *)

Next ==
    \/ StartCommand({1})
    \/ TextMessage({1}, Texts, {"salt1"}, {0})
    \/ VoiceMessage({1}, {"voice_a"}, {0}, MaxMemos)
    \/ ButtonPress({1}, Buttons, {0}, FALSE)
    \/ TranscribePress({1}, PayloadArgs, SttResults, {0})
    \/ SummarizePress({1}, PayloadArgs, SttResults \cup LlmResults, {0})

Spec == Init /\ [][Next]_vars

-----------------------------------------------------------------------------
(* SpecStore: two users sharing the memo table.  Each sets a password,      *)
(* records, and presses the memo buttons on every id, the other's included. *)

\* Ids the shared store holds at some time; each is missing before its memo
\* is recorded and after it is deleted
StoreArgs == {ToStr(i) : i \in 1..MaxSharedMemos}

StoreButtons ==
    {Data(c, <<>>) : c \in {"start_bot", "new_memo", "my_memos"}}
    \cup {Data(c, a) : c \in {"listen", "delete"}, a \in StoreArgs}

StoreResults == {AiResult("ok", <<"h", "i">>)}

InitStore == InitIn({TRUE}, {TRUE}, {FALSE}, {FALSE})

NextStore ==
    \/ TextMessage(UserIds, {Pass6}, {"salt1"}, {0})
    \/ VoiceMessage({1}, {"voice_a"}, {0}, MaxSharedMemos)
    \/ VoiceMessage({2}, {"voice_b"}, {0}, MaxSharedMemos)
    \/ ButtonPress(UserIds, StoreButtons, {0}, FALSE)
    \/ TranscribePress(UserIds, StoreArgs, StoreResults, {0})
    \/ SummarizePress(UserIds, StoreArgs, StoreResults, {0})

SpecStore == InitStore /\ [][NextStore]_vars

-----------------------------------------------------------------------------
(* SpecCred: two users setting their passwords and logging in, under either *)
(* bcrypt, with passwords up to 73 bytes; a storage failure of user_exists  *)
(* lets a user with a password set it again.                                *)

CredTexts == {Short5, Pass6, Pass7, Long73a, Long73b}

CredButtons == {Data(c, <<>>) : c \in {"start_bot", "unlock_vault", "lock_vault"}}

InitCred == InitIn({TRUE}, {FALSE}, BOOLEAN, {FALSE})

NextCred ==
    \/ StartCommand(UserIds)
    \/ TextMessage(UserIds, CredTexts, Salts, {0})
    \/ ButtonPress(UserIds, CredButtons, {0, 1}, FALSE)

SpecCred == InitCred /\ [][NextCred]_vars

-----------------------------------------------------------------------------
(* SpecClock: two users unlocking, recording and locking while the clock    *)
(* runs and the inactivity job fires at any time.                           *)

ClockButtons ==
    {Data(c, <<>>) : c \in {"start_bot", "unlock_vault", "new_memo", "my_memos",
                            "lock_vault"}}

InitClock == InitIn({TRUE}, {FALSE}, {FALSE}, {FALSE})

NextClock ==
    \/ TextMessage(UserIds, {Pass6}, {"salt1"}, {0})
    \/ VoiceMessage(UserIds, {"voice_a"}, {0}, MaxMemos)
    \/ ButtonPress(UserIds, ClockButtons, {0}, FALSE)
    \/ InactivityJob
    \/ ClockTick

SpecClock == InitClock /\ [][NextClock]_vars

-----------------------------------------------------------------------------
(* SpecFault: one user's chat with the bot while any storage call of an     *)
(* event may raise (sqlite3 errors such as "database is locked" come and    *)
(* go); the AI key is set and the external services answer.                 *)

FaultButtons ==
    {Data(c, <<>>) : c \in {"start_bot", "unlock_vault", "new_memo", "my_memos",
                            "lock_vault"}}
    \cup {Data(c, ToStr(1)) : c \in {"listen", "delete"}}

FaultResults == {AiResult("ok", <<"h", "i">>)}

InitFault == InitIn({TRUE}, {TRUE}, {FALSE}, {FALSE})

NextFault ==
    \/ TextMessage({1}, {Pass6, Pass7}, {"salt1"}, {0, 1})
    \/ VoiceMessage({1}, {"voice_a"}, {0, 1}, MaxMemos)
    \/ ButtonPress({1}, FaultButtons, {0, 1, 2}, FALSE)
    \/ TranscribePress({1}, {ToStr(1)}, FaultResults, {0, 1, 2, 3})
    \/ SummarizePress({1}, {ToStr(1)}, FaultResults, {0, 1, 2, 3, 4})

SpecFault == InitFault /\ [][NextFault]_vars

-----------------------------------------------------------------------------
(* SpecRace: /start handled in the steps the event loop takes.  The handler *)
(* waits at each delete_message of cleanup_old_messages; the inactivity job *)
(* and the clock go on while it waits.                                      *)

\* start_command_handler up to the first await of cleanup_old_messages
\* (lines 186-188 and 109-118): messages_to_delete is a copy of the list
start_command_awaits(u) ==
    /\ u \in DOMAIN user_last_messages
    /\ user_last_messages[u] # <<>>
    /\ user_data' = [user_data EXCEPT ![u] = ClearedSession]
    /\ user_activity' = update_user_activity(user_activity, u)
    /\ suspended' = [user |-> u, pending |-> user_last_messages[u]]
    /\ out' = Event(u, "command", Data("start", <<>>))
    /\ UNCHANGED <<users, memos, next_id, user_last_messages, now, ai_configured,
                   bcrypt_truncates, frozen_updates, bot_token>>

\* The awaited delete_message returns (tgok) or raises.  Line 119 runs inside
\* the try: a failed delete and a KeyError are caught and logged.  After the
\* last message, lines 124-125 run outside the try, then line 190.
delete_message_returns(tgok) ==
    LET u == suspended.user
        ev == Event(u, "command", Data("start", <<>>))
        rest == Tail(suspended.pending)
        tracked == IF tgok /\ u \in DOMAIN user_last_messages
                   THEN [user_last_messages EXCEPT
                            ![u] = ListRemove(@, Head(suspended.pending))]
                   ELSE user_last_messages
    IN  /\ suspended # NoHandler
        /\ \/ /\ rest # <<>>
              /\ suspended' = [suspended EXCEPT !.pending = rest]
              /\ user_last_messages' = tracked
              /\ out' = ev
           \/ /\ rest = <<>>
              /\ suspended' = NoHandler
              /\ \/ /\ u \in DOMAIN tracked
                    /\ user_last_messages' =
                          show_welcome_message(u,
                              [tracked EXCEPT ![u] =
                                  IF Len(@) > MaxTracked THEN LastN(@, KeepTracked) ELSE @])
                    /\ out' = [ev EXCEPT !.reply = "welcome"]
                 \/ /\ u \notin DOMAIN tracked    \* KeyError at line 124
                    /\ user_last_messages' = tracked
                    /\ out' = [ev EXCEPT !.raised = TRUE]
        /\ UNCHANGED <<users, memos, next_id, user_data, user_activity, now,
                       ai_configured, bcrypt_truncates, frozen_updates, bot_token>>

StartCommandAwaits(U) ==
    \E u \in U : bot_token /\ suspended = NoHandler /\ start_command_awaits(u)

\* cap: the length a list of tracked ids is let to reach
DeleteMessageReturns(cap) ==
    \E tgok \in BOOLEAN :
        /\ bot_token
        /\ delete_message_returns(tgok)
        /\ \A u \in DOMAIN user_last_messages' : Len(user_last_messages'[u]) <= cap

InitRace == InitIn({TRUE}, {FALSE}, {FALSE}, {FALSE})

NextRace ==
    \/ StartCommand(UserIds)
    \/ StartCommandAwaits(UserIds)
    \/ DeleteMessageReturns(MaxPending)
    \/ InactivityJob
    \/ ClockTick

SpecRace == InitRace /\ [][NextRace]_vars

-----------------------------------------------------------------------------
(* SpecTracked: the buttons pressed where the bot puts them.  The keyboards *)
(* sent by reply_text are on messages the bot tracks in user_last_messages; *)
(* a press comes from one of those or from a message that is not tracked.   *)

TrackedButtons ==
    {Data(c, <<>>) : c \in {"start_bot", "unlock_vault", "new_memo", "my_memos",
                            "help", "lock_vault", "back_to_menu"}}
    \cup {Data("listen", ToStr(1))}

InitTracked == InitIn({TRUE}, {FALSE}, {FALSE}, {FALSE})

NextTracked ==
    \/ StartCommand(UserIds)
    \/ TextMessage(UserIds, {Pass6, Pass7}, {"salt1"}, {0})
    \/ VoiceMessage(UserIds, {"voice_a"}, {0}, MaxMemos)
    \/ ButtonPress(UserIds, TrackedButtons, {0}, TRUE)

SpecTracked == InitTracked /\ [][NextTracked]_vars

-----------------------------------------------------------------------------
(* Properties *)

\* The last event is a press of a memo button <cmd>_<arg> with cmd in cmds
MemoPress(o, cmds) == o.kind = "button" /\ o.data.cmd \in cmds

\* C1 (as claimed): listing, replaying, deleting, transcribing and
\* summarizing a memo take effect for a user only while that user's session
\* has authenticated = True.
C1_TookEffect ==
    \/ out.reply = "your_memos"
    \/ MemoPress(out, {"listen"}) /\ out.reply = "memo_options"
    \/ MemoPress(out, {"delete"}) /\ out.toast = "Memo deleted"
    \/ MemoPress(out, {"transcribe", "summarize"})
       /\ out.reply \in {"transcription", "already_transcribed", "summary"}

C1_MasterPasswordGatesMemos ==
    (out.kind = "button" /\ C1_TookEffect) => user_data[out.user].authenticated

\* C2 (as claimed): once the inactivity job has dropped a user, idle for more
\* than 300 seconds, that user's next new_memo, my_memos or voice message is
\* refused.
C2_Gated(o) ==
    \/ o.kind = "voice"
    \/ o.kind = "button" /\ o.data.cmd \in {"new_memo", "my_memos"}

C2_NextActionStep ==
    (C2_Gated(out') /\ out'.user \notin DOMAIN user_activity)
    => out'.reply \in {"unlock_first", "unlock_and_select_new_memo"}

C2_IdleUserMustLogInAgain == [][C2_NextActionStep]_vars

\* The ids of the memos user u owns
OwnedIds(u) == {m.id : m \in {r \in memos : r.user_id = u}}

\* C3: a memo of user A is in no list get_user_memos(B) returns and
\* get_memo_file_id(id, B) is None for every id A owns, for every other user
\* B; so the bot lists to a user, and plays to a user, that user's memos only.
C3_MemosAreScopedToOwner ==
    /\ \A m \in memos : \A B \in UserIds \ {m.user_id} :
          /\ \A row \in get_user_memos(B, TRUE) : row.id # m.id
          /\ get_memo_file_id(m.id, B, TRUE) = NULL
    /\ out.kind = "button" => out.listed \subseteq OwnedIds(out.user)
    /\ (MemoPress(out, {"listen"}) /\ out.shown # <<>>)
       => \E m \in memos : /\ m.user_id = out.user
                           /\ m.id = ToInt(out.data.arg)
                           /\ out.shown = <<<<m.file_id>>>>

C3_Witness ==
    /\ MemoPress(out, {"listen"})
    /\ out.toast = "Memo not found or access denied"
    /\ \E m \in memos : m.id = ToInt(out.data.arg) /\ m.user_id # out.user
    /\ OwnedIds(out.user) # {}

\* C4: the owner of a memo id never changes, and a step that changes or
\* removes a memo row is a step of the row's owner.
C4_OwnerStep ==
    /\ \A m \in memos : \A n \in memos' : m.id = n.id => m.user_id = n.user_id
    /\ \A m \in memos : m \notin memos' => out'.user = m.user_id

C4_OnlyOwnerChangesMemo == [][C4_OwnerStep]_vars

C4_Witness ==
    /\ MemoPress(out, {"delete", "transcribe", "summarize"})
    /\ \E m \in memos : /\ m.id = ToInt(out.data.arg) /\ m.user_id # out.user
                        /\ m.transcription = NULL /\ m.summary = NULL
    /\ \E m \in memos : m.user_id = out.user /\ m.transcription # NULL

\* C5: delete_memo on an id that is not in the table, or that another user
\* owns, returns False and leaves the table as it was, and the delete button
\* answers "Failed to delete memo" without showing the list again.
C5_FailedDeleteStep ==
    (/\ MemoPress(out', {"delete"})
     /\ IsNumeric(out'.data.arg)
     /\ ToInt(out'.data.arg) \notin OwnedIds(out'.user))
    => /\ ~delete_memo(ToInt(out'.data.arg), out'.user, TRUE).ret
       /\ delete_memo(ToInt(out'.data.arg), out'.user, TRUE).memos = memos
       /\ memos' = memos
       /\ out'.toast = "Failed to delete memo"
       /\ out'.reply = "" /\ out'.listed = {}

C5_FailedDeleteChangesNothing == [][C5_FailedDeleteStep]_vars

C5_Witness ==
    /\ MemoPress(out, {"delete"})
    /\ out.toast = "Failed to delete memo"
    /\ \E m \in memos : m.id = ToInt(out.data.arg) /\ m.user_id # out.user
    /\ user_data[out.user].authenticated

C5_WitnessMissing ==
    /\ MemoPress(out, {"delete"})
    /\ out.toast = "Failed to delete memo"
    /\ \A m \in memos : m.id # ToInt(out.data.arg)

\* C6: in state AWAITING_PASSWORD a text shorter than 6 characters is
\* answered "too short" and changes neither the credential table nor the
\* session: no row is written, authenticated stays False, the state stays
\* AWAITING_PASSWORD.
C6_ShortPasswordStep ==
    (/\ out'.kind = "text"
     /\ user_data[out'.user].state = AWAITING_PASSWORD
     /\ Len(out'.data.arg) < MinPasswordLen)
    => (/\ users' = users
        /\ user_data' = user_data
        /\ user_data'[out'.user].state = AWAITING_PASSWORD
        /\ ~user_data'[out'.user].authenticated
        /\ out'.reply = "password_too_short")

C6_ShortPasswordWritesNothing == [][C6_ShortPasswordStep]_vars

C6_Witness ==
    /\ out.kind = "text" /\ Len(out.data.arg) = MinPasswordLen - 1
    /\ out.reply = "password_too_short"
    /\ user_data[out.user] = Session(AWAITING_PASSWORD, FALSE)
    /\ users = {}

\* C7 (as claimed): once set_master_password(u, p) has succeeded,
\* verify_master_password(u, p) is True and verify_master_password(u, q) is
\* False for every other q; for a user without a row it is False.
C7_SetThenVerify ==
    /\ (out.kind = "text" /\ out.reply = "password_set")
       => /\ verify_master_password(out.user, out.data.arg, TRUE)
          /\ \A q \in CredTexts \ {out.data.arg} :
                ~verify_master_password(out.user, q, TRUE)
    /\ \A u \in UserIds :
          (\A r \in users : r.user_id # u)
          => \A q \in CredTexts : ~verify_master_password(u, q, TRUE)

\* C8: a transcribe press on an owned memo without a transcription calls
\* the speech-to-text service once (unless the audio could not be fetched),
\* and the text it returns is stored; a transcribe press on an owned memo
\* with a transcription shows the stored text, calls nothing and changes
\* nothing.
C8_TranscribeStep ==
    (MemoPress(out', {"transcribe"}) /\ IsNumeric(out'.data.arg) /\ ai_configured)
    => LET u == out'.user
           id == ToInt(out'.data.arg)
           stored == select_transcription(id, u)
       IN  get_memo_file_id(id, u, TRUE) # NULL
           => IF Truthy(stored)
              THEN /\ out'.stt = <<>>
                   /\ out'.reply = "already_transcribed"
                   /\ out'.shown = <<stored[1]>>
                   /\ memos' = memos
              ELSE /\ Len(out'.stt) <= 1
                   /\ out'.stt = <<>>
                      => out'.reply \in {"transcription_failed_unexpectedly",
                                         "transcription_failed_file"}
                   /\ \A r \in Range(out'.stt) :
                         (r.kind = "ok" /\ Len(Strip(r.text)) > 0)
                         => /\ \E m \in memos' : /\ m.id = id /\ m.user_id = u
                                                  /\ m.transcription = Some(Strip(r.text))
                            /\ out'.reply = "transcription"
                            /\ out'.shown = <<Strip(r.text)>>

C8_TranscriptionIsCached == [][C8_TranscribeStep]_vars

C8_Witness ==
    /\ MemoPress(out, {"transcribe"})
    /\ out.reply = "already_transcribed"
    /\ out.stt = <<>>
    /\ \E m \in memos : m.id = ToInt(out.data.arg) /\ m.transcription = Some(out.shown[1])

\* C9: a rate-limit error, an API error and an empty transcript each get
\* their own message, and the memo table is left as it was.
C9_FailureStep ==
    MemoPress(out', {"transcribe", "summarize"})
    => /\ \A r \in Range(out'.stt) :
             /\ r.kind = "rate_limit"
                => out'.reply = "transcription_failed_rate_limit" /\ memos' = memos
             /\ r.kind = "api_error"
                => out'.reply = "transcription_failed_api_error" /\ memos' = memos
             /\ (r.kind = "ok" /\ Len(Strip(r.text)) = 0)
                => out'.reply = "transcription_empty" /\ memos' = memos
       /\ \A r \in Range(out'.llm) :
             /\ r.kind = "rate_limit"
                => out'.reply = "summarization_failed_rate_limit" /\ memos' = memos
             /\ r.kind = "api_error"
                => out'.reply = "summarization_failed_api_error" /\ memos' = memos

C9_AiFailuresLeaveMemo == [][C9_FailureStep]_vars

C9_Witness ==
    /\ MemoPress(out, {"transcribe"})
    /\ out.reply = "transcription_empty"
    /\ \E m \in memos : m.id = ToInt(out.data.arg) /\ m.transcription = NULL

\* C10 (as claimed): a payload listen_<x>, delete_<x>, transcribe_<x> or
\* summarize_<x> whose <x> is not a number is answered with a notice and
\* changes neither the memo table nor the session.
C10_ForgedPayloadStep ==
    (MemoPress(out', {"listen", "delete", "transcribe", "summarize"})
     /\ ~IsNumeric(out'.data.arg))
    => /\ out'.toast # "" \/ out'.reply # ""
       /\ memos' = memos
       /\ user_data' = user_data

C10_ForgedPayloadRejected == [][C10_ForgedPayloadStep]_vars

\* C13: a voice message accepted from user u (session authenticated and in
\* AWAITING_VOICE) adds one row to memos: owned by u, holding the message's
\* file id, transcription and summary NULL; the rows there before stay as
\* they were, and u's session goes to state None, still authenticated.
C13_AcceptedVoiceStep ==
    (out'.kind = "voice" /\ user_data[out'.user] = Session(AWAITING_VOICE, TRUE))
    => /\ \E m \in memos' :
             /\ m \notin memos
             /\ memos' = memos \cup {m}
             /\ \A n \in memos : n.id # m.id
             /\ m.user_id = out'.user
             /\ <<m.file_id>> = out'.data.arg
             /\ m.transcription = NULL /\ m.summary = NULL
       /\ Cardinality(memos') = Cardinality(memos) + 1
       /\ user_data'[out'.user] = Session(None, TRUE)
       /\ \A v \in UserIds \ {out'.user} : user_data'[v] = user_data[v]

C13_VoiceAddsOneMemo == [][C13_AcceptedVoiceStep]_vars

C13_Witness ==
    /\ out.kind = "voice" /\ out.reply = "memo_saved"
    /\ user_data[out.user] = Session(None, TRUE)
    /\ \E m \in memos : m.user_id = out.user /\ <<m.file_id>> = out.data.arg
    /\ \E m \in memos : m.user_id # out.user /\ m.transcription # NULL

\* C16: a run of check_inactivity removes from user_activity and from
\* user_last_messages the users whose last activity is more than 300 seconds
\* old, leaves every other entry as it was, and changes neither the
\* credential table nor the memo table.
C16_SweepStep ==
    (out'.kind = "job" /\ now' = now)
    => LET idle == {u \in DOMAIN user_activity : now - user_activity[u] > InactivityThreshold}
       IN  /\ DOMAIN user_activity' = DOMAIN user_activity \ idle
           /\ \A u \in DOMAIN user_activity' : user_activity'[u] = user_activity[u]
           /\ DOMAIN user_last_messages' = DOMAIN user_last_messages \ idle
           /\ \A u \in DOMAIN user_last_messages' :
                 user_last_messages'[u] = user_last_messages[u]
           /\ users' = users /\ memos' = memos /\ user_data' = user_data

C16_SweepEvictsIdleUsersOnly == [][C16_SweepStep]_vars

\* the job has run with one user idle under the threshold, who has stayed,
\* and one idle over it, who is gone
C16_Witness ==
    /\ out.kind = "job"
    /\ \E u \in DOMAIN user_activity : now - user_activity[u] > 0
    /\ \E v \in UserIds \ DOMAIN user_activity : user_data[v].authenticated

\* C17: a voice message is stored only from a session that is authenticated
\* and in AWAITING_VOICE, and storing it takes the session out of that state;
\* from any other session it is refused, writes no row and leaves the
\* session as it was.
C17_VoiceStep ==
    out'.kind = "voice"
    => IF user_data[out'.user].authenticated
          /\ user_data[out'.user].state = AWAITING_VOICE
       THEN memos' # memos => user_data'[out'.user].state = None
       ELSE /\ memos' = memos
            /\ next_id' = next_id
            /\ user_data' = user_data
            /\ out'.reply = "unlock_and_select_new_memo"

C17_VoiceNeedsNewMemo == [][C17_VoiceStep]_vars

C17_Witness ==
    /\ out.kind = "voice" /\ out.reply = "unlock_and_select_new_memo"
    /\ user_data[out.user] = Session(None, TRUE)
    /\ Cardinality(memos) = 1

\* C18: pressing lock_vault leaves the session with authenticated False and
\* state None and the user without an entry in user_activity; while
\* authenticated is False, new_memo, my_memos and voice messages are refused
\* and store nothing; and a user who has a password gets authenticated again
\* only by a text in AWAITING_LOGIN that verify_master_password accepts.
\* (Storage working: its failures are the matter of C11 and C15.)
C18_LockStep ==
    /\ (out'.kind = "button" /\ out'.data.cmd = "lock_vault")
       => /\ user_data'[out'.user] = Session(None, FALSE)
          /\ out'.user \notin DOMAIN user_activity'
    /\ (C2_Gated(out') /\ ~user_data[out'.user].authenticated)
       => /\ out'.reply \in {"unlock_first", "unlock_and_select_new_memo"}
          /\ out'.listed = {}
          /\ memos' = memos
          /\ ~user_data'[out'.user].authenticated
          /\ user_data'[out'.user].state # AWAITING_VOICE
    /\ \A u \in UserIds :
          (/\ ~user_data[u].authenticated /\ user_data'[u].authenticated
           /\ user_exists(u, TRUE))
          => /\ out'.kind = "text" /\ out'.user = u
             /\ user_data[u].state = AWAITING_LOGIN
             /\ verify_master_password(u, out'.data.arg, TRUE)

C18_LockedUntilLogin == [][C18_LockStep]_vars

C18_Witness ==
    /\ C2_Gated(out) /\ out.kind = "button"
    /\ out.reply = "unlock_first"
    /\ user_exists(out.user, TRUE)
    /\ memos # {}
    /\ user_data[out.user] = Session(None, FALSE)

\* C19: in AWAITING_LOGIN, not authenticated, a text verify_master_password
\* rejects leaves the session as it was (so the next text is again taken as
\* a password), and a text it accepts authenticates the user and sets the
\* state to None, however many were rejected before.
C19_LoginStep ==
    (out'.kind = "text" /\ user_data[out'.user] = Session(AWAITING_LOGIN, FALSE))
    => IF verify_master_password(out'.user, out'.data.arg, TRUE)
       THEN /\ user_data'[out'.user] = Session(None, TRUE)
            /\ out'.reply = "access_granted"
       ELSE /\ user_data' = user_data
            /\ out'.reply = "incorrect_password"
            /\ users' = users

C19_NoLockout == [][C19_LoginStep]_vars

C19_Witness ==
    /\ out.kind = "text" /\ out.reply = "incorrect_password"
    /\ user_data[out.user] = Session(AWAITING_LOGIN, FALSE)
    /\ \E q \in CredTexts : verify_master_password(out.user, q, TRUE)

\* C20: authenticated turns True only in a text event: in AWAITING_LOGIN with
\* a text verify_master_password accepts, or in AWAITING_PASSWORD with a text
\* of at least 6 characters that set_master_password stores.
C20_AuthStep ==
    \A u \in UserIds :
       (~user_data[u].authenticated /\ user_data'[u].authenticated)
       => /\ out'.kind = "text" /\ out'.user = u
          /\ \/ /\ user_data[u].state = AWAITING_LOGIN
                /\ verify_master_password(u, out'.data.arg, TRUE)
                /\ users' = users
             \/ /\ user_data[u].state = AWAITING_PASSWORD
                /\ Len(out'.data.arg) >= MinPasswordLen
                /\ set_master_password(u, out'.data.arg, "salt1", TRUE).ret
                /\ \E r \in users' : /\ r.user_id = u
                                     /\ checkpw(out'.data.arg, r.master_password_hash)

C14_ConfigStep ==
    /\ bot_token
    /\ ai_configured' = ai_configured
    /\ IF MemoPress(out', {"transcribe", "summarize"})
       THEN ~ai_configured
            => /\ out'.stt = <<>> /\ out'.llm = <<>>
               /\ memos' = memos
               /\ RoutedToAI(out'.data)
                  => /\ out'.reply = "ai_not_configured"
                     /\ out'.toast = "AI Not Configured"
       ELSE /\ out'.reply # "ai_not_configured"
            /\ out'.stt = <<>> /\ out'.llm = <<>>

C14_NothingWithoutToken ==
    ~bot_token => /\ out = Event(0, "", NoData)
                  /\ users = {} /\ memos = {}
                  /\ user_activity = <<>> /\ user_last_messages = <<>>

C14_MissingConfiguration == []C14_NothingWithoutToken /\ [][C14_ConfigStep]_vars

C14_Witness ==
    /\ bot_token /\ ~ai_configured
    /\ MemoPress(out, {"transcribe"})
    /\ out.reply = "ai_not_configured"
    /\ \E m \in memos : m.id = ToInt(out.data.arg) /\ m.user_id = out.user
    /\ user_data[out.user].authenticated

\* C11 (as claimed): an event in which a storage call raises ends without an
\* uncaught exception, tells the user of a failure, and changes neither the
\* credential table nor the memo table nor any authenticated flag.
C11_FailureNotice(o) ==
    \/ o.reply \in {"password_set_failed", "memo_save_failed",
                    "transcription_failed_unexpectedly",
                    "summarization_failed_unexpectedly"}
    \/ o.toast = "Failed to delete memo"

C11_StorageErrorStep ==
    out'.dberr
    => /\ ~out'.raised
       /\ C11_FailureNotice(out')
       /\ users' = users
       /\ memos' = memos
       /\ \A u \in UserIds : user_data'[u].authenticated = user_data[u].authenticated

C11_StorageErrorsSurfaced == [][C11_StorageErrorStep]_vars

\* C15 (as claimed): a credential row, once written, stays as it is, and a
\* user who has one is never put into AWAITING_PASSWORD.
C15_CredentialStep ==
    /\ \A r \in users : r \in users'
    /\ \A u \in UserIds :
          (user_exists(u, TRUE) /\ user_data[u].state # AWAITING_PASSWORD)
          => user_data'[u].state # AWAITING_PASSWORD

C15_CredentialRowIsKept == [][C15_CredentialStep]_vars

\* C12 (as claimed): a handler that waited inside cleanup_old_messages while
\* the inactivity job ran ends without an exception for a missing entry of
\* user_activity or user_last_messages.
C12_ResumeStep ==
    (suspended # NoHandler /\ suspended' = NoHandler) => ~out'.raised

C12_SweepRacesBenignly == [][C12_ResumeStep]_vars

\* C21 (as claimed): a session with authenticated = True is idle or waits for
\* a voice message; it never waits for a password.
C21_AuthenticatedNeverPrompted ==
    \A u \in UserIds :
        user_data[u].authenticated => user_data[u].state \in {None, AWAITING_VOICE}

\* C22 (as claimed): a memo with a summary has a transcription; a summarize
\* press on a memo that has no transcription runs the transcription instead
\* (it ends with one of the transcription's answers, without an exception and
\* without a call of the language model) and writes no summary.
C22_SummaryHasTranscription ==
    \A m \in memos : m.summary # NULL => m.transcription # NULL

C22_Untranscribed(o) ==
    /\ MemoPress(o, {"summarize"})
    /\ ai_configured
    /\ IsNumeric(o.data.arg)
    /\ \E m \in memos : /\ m.id = ToInt(o.data.arg)
                        /\ m.user_id = o.user
                        /\ ~Truthy(m.transcription)

C22_RedirectStep ==
    C22_Untranscribed(out')
    => /\ ~out'.raised
       /\ out'.reply # ""
       /\ out'.llm = <<>>
       /\ \A m \in memos' : \E n \in memos : n.id = m.id /\ n.summary = m.summary

C22_SummarizeTranscribesFirst ==
    []C22_SummaryHasTranscription /\ [][C22_RedirectStep]_vars

\* C23 (as claimed): a transcription, and a summary, that is not NULL keeps
\* its value for as long as its memo exists, and no later transcribe or
\* summarize press calls the external service for it again.
C23_Kept(m) ==
    \A n \in memos' :
        n.id = m.id => /\ (m.transcription # NULL => n.transcription = m.transcription)
                       /\ (m.summary # NULL => n.summary = m.summary)

C23_NoSecondCall(m) ==
    (MemoPress(out', {"transcribe", "summarize"})
        /\ IsNumeric(out'.data.arg) /\ ToInt(out'.data.arg) = m.id /\ out'.user = m.user_id)
    => /\ (m.transcription # NULL => out'.stt = <<>>)
       /\ (m.summary # NULL => out'.llm = <<>>)

C23_WriteOnceStep == \A m \in memos : C23_Kept(m) /\ C23_NoSecondCall(m)

C23_TextsAreWriteOnce == [][C23_WriteOnceStep]_vars

\* C24: a user who has a credential row can always log in again by /start,
\* the start_bot button and the stored password.  /start leaves the session
\* with no state and not authenticated, whatever it was; start_bot then puts
\* it into AWAITING_LOGIN; a text that the stored hash verifies then makes it
\* authenticated with state None.  No step of the three changes the
\* credential row, so each one ends where the next one begins.  (The storage
\* answering is assumed here; what a storage error does is the matter of C11
\* and C15.)
C24_ReauthStep ==
    LET u == out'.user
    IN  /\ out'.kind = "command"
           => user_data'[u] = ClearedSession /\ users' = users
        /\ (MemoPress(out', {"start_bot"}) /\ user_exists(u, TRUE) /\ ~out'.dberr)
           => /\ user_data'[u] = [user_data[u] EXCEPT !.state = AWAITING_LOGIN]
              /\ out'.reply = "enter_your_master_password"
              /\ users' = users
        /\ (/\ out'.kind = "text"
            /\ user_data[u].state = AWAITING_LOGIN
            /\ ~out'.dberr
            /\ \E r \in users : /\ r.user_id = u
                                /\ checkpw(out'.data.arg, r.master_password_hash))
           => user_data'[u] = Session(None, TRUE) /\ users' = users

C24_ReauthenticationIsAvailable == [][C24_ReauthStep]_vars

\* A user who had recorded a memo has logged in again
C24_Witness ==
    /\ out.kind = "text"
    /\ out.reply = "access_granted"
    /\ user_data[out.user] = Session(None, TRUE)
    /\ \E m \in memos : m.user_id = out.user

\* C25 (as claimed): a button press never ends with the handler editing a
\* message that the same event has deleted; pressing lock_vault on a tracked
\* message ends with the lock confirmation shown on it.
C25_EditStep ==
    out'.kind = "button"
    => /\ ~out'.raised
       /\ out'.data.cmd = "lock_vault" => out'.reply = "vault_locked"

C25_EditedMessageExists == [][C25_EditStep]_vars

====
